---------------------------- MODULE Spec2Model ----------------------------
(***************************************************************************)
(* Model of examples/c/randomSOCPProb.c: the command-line driver that      *)
(* derives the cone layout of a random SOCP (zero rows, LP rows and a      *)
(* random sequence of second-order-cone blocks) and hands it to the        *)
(* instance builder genRandomProbData and to the solver scs.               *)
(*                                                                         *)
(* One execution of main is a record (a "run").  Two runs are modelled so  *)
(* that reproducibility under a fixed seed can be stated: the second run   *)
(* is the same command line executed again after the first has returned    *)
(* (with no seed argument, at the same clock value).                       *)
(*                                                                         *)
(* pfloat values p_f, p_l are held as integer numerators over PDen.  For   *)
(* the values in PVals and the n of this model the IEEE-double results of  *)
(* floor(3*n*p) and of p_f + p_l > 1.0 equal the exact rational results.   *)
(***************************************************************************)
EXTENDS Integers, Sequences, FiniteSets, TLC

(* ------------------------------ bounds -------------------------------- *)
MaxN == 2
NegN == 1
MaxSeed == 1
MaxRand == 4
MaxOverrun == 1

(* --------------------------- representation --------------------------- *)
PDen == 10
DefaultPf == 1
DefaultPl == 3
(* idxint is int, 32 bits wide.                                           *)
IntMax == 2147483647
IntMin == (-2147483647) - 1

NVals == (-NegN)..MaxN
PVals == {-1, 0, 3, 5, 7}
SeedVals == 0..MaxSeed
RandVals == 0..MaxRand
ArgCounts == 1..5
RunIds == {1, 2}

(* Values a conversion of NaN to a 32-bit integer yields: the x86         *)
(* "integer indefinite", the AArch64 result and the RISC-V result.  The   *)
(* build fixes which one; nanInt holds it once a conversion has shown it. *)
UBInts == {IntMin, 0, IntMax}

VARIABLES run, stream, nanInt

vars == <<run, stream, nanInt>>

(* ------------------------ integer arithmetic -------------------------- *)
(* idxint (32-bit two's complement) addition, negation, multiplication.    *)
AddIdx(x, y) ==
    IF y > 0 /\ x > IntMax - y THEN ((x - IntMax) - 1) + ((y - IntMax) - 1)
    ELSE IF y < 0 /\ x < IntMin - y THEN (x - IntMin) + (y - IntMin)
    ELSE x + y

NegIdx(x) == IF x = IntMin THEN IntMin ELSE 0 - x

RECURSIVE MulIdx(_, _)
MulIdx(a, b) ==
    IF a = 0 THEN 0
    ELSE IF a > 0 THEN AddIdx(MulIdx(a - 1, b), b)
    ELSE NegIdx(MulIdx(0 - a, b))

(* C's % on a non-negative left operand and a non-zero right operand.     *)
CRem(a, b) ==
    IF b > 0 THEN a % b
    ELSE IF b = IntMin THEN a
    ELSE a % (0 - b)

(* (int) ceil(sqrt(n)) for n >= 0.                                        *)
CeilSqrt(x) == CHOOSE c \in 0..x : c * c >= x /\ \A e \in 0..(c - 1) : e * e < x

(* ceil(3n / log(3n)) for n = 1, 2, ...: the values of the double         *)
(* expression, tabulated by n (3/1.0986 = 2.73, 6/1.7918 = 3.35, ...).    *)
CeilOverLog == <<3, 4, 5, 5, 6, 7, 7, 8, 9, 9, 10>>

MaxQ(x, ub) ==
    IF x < 0 THEN ub
    ELSE IF x = 0 THEN 0
    ELSE CeilOverLog[x]

ColNnz(x, ub) == IF x < 0 THEN ub ELSE CeilSqrt(x)

(* (idxint) floor(3 * n * p) with p = num / PDen.                         *)
FloorRows(x, num) == (3 * x * num) \div PDen

FractionSumEitherTooLarge(pf, pl) == pf > PDen \/ pl > PDen

FractionSumTooLarge(pf, pl) == pf + pl > PDen

RemainingRowsNoLinear(x, f, l) == 3 * x - f

RemainingRows(x, f, l) == 3 * x - f - l

MallocCapBytes(nelts) == IF nelts > 0 THEN nelts \div 4 ELSE 0

(* scs_malloc(nelts * sizeof(idxint)): the number of elements that may be *)
(* written; a non-positive count gives no usable element.                 *)
MallocCap(nelts) == IF nelts > 0 THEN nelts ELSE 0

LoopCondInclusive(rows, mq) == rows >= mq

LoopCond(rows, mq) == rows > mq

BlockSizeZeroBased(rnd, mq) == CRem(rnd, mq)

BlockSize(rnd, mq) == CRem(rnd, mq) + 1

LastCondInclusive(rows) == rows >= 0

LastCond(rows) == rows > 0

RECURSIVE SumQ(_, _)
SumQ(q, cnt) == IF cnt = 0 THEN 0 ELSE SumQ(q, cnt - 1) + q[cnt]

ParseSeedTimeOnly(argc, s, t) == t

ParseSeed(argc, s, t) == IF argc = 5 THEN s ELSE t

(* ------------------------------ state --------------------------------- *)
NoArgv == [n |-> 0, p_f |-> 0, p_l |-> 0, s |-> 0]

Argvs(argc) ==
    IF argc = 5 THEN [n : NVals, p_f : PVals, p_l : PVals, s : SeedVals]
    ELSE IF argc = 4 THEN [n : NVals, p_f : PVals, p_l : PVals, s : {0}]
    ELSE IF argc = 2 THEN [n : NVals, p_f : {0}, p_l : {0}, s : {0}]
    ELSE {NoArgv}

ZeroCone == [f |-> 0, l |-> 0, q |-> <<>>, qsize |-> 0, s |-> "NULL",
             ssize |-> 0, ep |-> 0, ed |-> 0]

ZeroData == [m |-> 0, n |-> 0, MAX_ITERS |-> 0, EPS |-> <<0, 1>>,
             ALPHA |-> <<0, 1>>, RHO_X |-> <<0, 1>>, SCALE |-> 0,
             CG_RATE |-> 0, VERBOSE |-> 0, NORMALIZE |-> 0,
             WARM_START |-> 0]

NotStarted ==
    [pc |-> "off", argc |-> 0, argv |-> NoArgv,
     n |-> 0, p_f |-> 0, p_l |-> 0, seed |-> 0,
     m |-> 0, col_nnz |-> 0, nnz |-> 0, max_q |-> 0,
     q_num_rows |-> 0, q_total |-> 0, q_cap |-> 0,
     k |-> ZeroCone, d |-> ZeroData,
     assigned |-> {}, heap |-> {}, rng |-> 0,
     out |-> <<>>, calls |-> <<>>, status |-> 0]

setScsParams(d) ==
    [d EXCEPT !.MAX_ITERS = 2500, !.EPS = <<1, 1000>>, !.ALPHA = <<18, 10>>,
              !.RHO_X = <<1, 1000>>, !.SCALE = 5, !.CG_RATE = 2,
              !.VERBOSE = 1, !.NORMALIZE = 1, !.WARM_START = 0]

Init ==
    /\ run = [i \in RunIds |-> NotStarted]
    /\ stream = [s \in SeedVals |-> <<>>]
    /\ nanInt = {}

(* ------------------------------ actions ------------------------------- *)

(* The process is started; main's locals get their defaults (lines 36-43) *)
Exec(i) ==
    /\ run[i].pc = "off"
    /\ \E argc \in ArgCounts, t \in SeedVals :
         \E av \in Argvs(argc) :
            /\ IF i = 1 THEN TRUE
               ELSE /\ run[1].pc = "exit"
                    /\ argc = run[1].argc
                    /\ av = run[1].argv
                    /\ argc = 5 \/ t = run[1].seed
            /\ run' = [run EXCEPT ![i] =
                  [NotStarted EXCEPT !.pc = "parse", !.argc = argc,
                                     !.argv = av,
                                     !.p_f = DefaultPf, !.p_l = DefaultPl,
                                     !.seed = t,
                                     !.assigned = {"p_f", "p_l", "seed"}]]
    /\ UNCHANGED <<stream, nanInt>>

(* switch (argc), lines 45-70 *)
ParseArgs(i) ==
    LET r == run[i] IN
    /\ r.pc = "parse"
    /\ IF r.argc \in {2, 4, 5}
       THEN run' = [run EXCEPT ![i] =
               [r EXCEPT !.pc = "seed",
                         !.seed = ParseSeed(r.argc, r.argv.s, r.seed),
                         !.p_f = IF r.argc \in {4, 5} THEN r.argv.p_f ELSE @,
                         !.p_l = IF r.argc \in {4, 5} THEN r.argv.p_l ELSE @,
                         !.n = r.argv.n,
                         !.assigned = @ \cup {"n"}]]
       ELSE run' = [run EXCEPT ![i] =
               [r EXCEPT !.pc = "exit", !.status = 0,
                         !.out = Append(@, "usage")]]
    /\ UNCHANGED <<stream, nanInt>>

(* srand(seed), the seed line and the four scs_calloc calls, lines 71-77 *)
SeedAndAlloc(i) ==
    LET r == run[i] IN
    /\ r.pc = "seed"
    /\ run' = [run EXCEPT ![i] =
          [r EXCEPT !.pc = "derive", !.rng = 0,
                    !.out = Append(@, "seed"),
                    !.k = ZeroCone, !.d = ZeroData,
                    !.heap = {"k", "d", "sol", "opt_sol"}]]
    /\ UNCHANGED <<stream, nanInt>>

(* m, col_nnz, nnz, max_q: lines 79-83.  For n < 0 both sqrt(n) and      *)
(* log(3n) are NaN and the conversions to integer are undefined.          *)
Derive(i) ==
    LET r == run[i] IN
    /\ r.pc = "derive"
    /\ \E ub \in UBInts :
         /\ IF r.n >= 0 THEN ub = 0
            ELSE IF nanInt # {} THEN ub \in nanInt
            ELSE TRUE
         /\ nanInt' = IF r.n >= 0 THEN nanInt ELSE {ub}
         /\ LET c == ColNnz(r.n, ub) IN
            run' = [run EXCEPT ![i] =
               [r EXCEPT !.pc = "check",
                         !.m = 3 * r.n,
                         !.col_nnz = c,
                         !.nnz = MulIdx(r.n, c),
                         !.max_q = MaxQ(r.n, ub),
                         !.assigned =
                             @ \cup {"m", "col_nnz", "nnz", "max_q"}]]
    /\ UNCHANGED stream

(* if (p_f + p_l > 1.0), lines 85-88 *)
CheckFractions(i) ==
    LET r == run[i] IN
    /\ r.pc = "check"
    /\ IF FractionSumTooLarge(r.p_f, r.p_l)
       THEN run' = [run EXCEPT ![i] =
               [r EXCEPT !.pc = "exit", !.status = 1,
                         !.out = Append(@, "error")]]
       ELSE run' = [run EXCEPT ![i] = [r EXCEPT !.pc = "rows"]]
    /\ UNCHANGED <<stream, nanInt>>

(* k->f, k->l, k->qsize, q_num_rows, k->q: lines 90-95 *)
AllocRows(i) ==
    LET r == run[i]
        f == FloorRows(r.n, r.p_f)
        l == FloorRows(r.n, r.p_l)
        rows == RemainingRows(r.n, f, l)
    IN
    /\ r.pc = "rows"
    /\ run' = [run EXCEPT ![i] =
          [r EXCEPT !.pc = "loop",
                    !.k.f = f, !.k.l = l, !.k.qsize = 0, !.k.q = <<>>,
                    !.q_num_rows = rows,
                    !.q_cap = MallocCap(rows),
                    !.heap = @ \cup {"q"},
                    !.assigned = @ \cup {"q_num_rows"}]]
    /\ UNCHANGED <<stream, nanInt>>

(* One iteration of while (q_num_rows > max_q), lines 97-103.  rand()     *)
(* returns the next value of the sequence that srand(seed) selected; a    *)
(* value not yet determined is chosen freely and remembered.  Division by *)
(* zero and a write past the allocation are undefined: the run either     *)
(* dies or goes on (no trap, the store lands outside the block).          *)
LoopIter(i) ==
    LET r == run[i]
        pos == r.rng + 1
        known == pos <= Len(stream[r.seed])
        inBounds == r.k.qsize < r.q_cap
    IN
    /\ r.pc = "loop"
    /\ LoopCond(r.q_num_rows, r.max_q)
    /\ \E rnd \in RandVals, dies \in BOOLEAN :
         /\ IF known THEN rnd = stream[r.seed][pos] ELSE TRUE
         /\ dies => (r.max_q = 0 \/ ~inBounds)
         /\ (~dies /\ ~inBounds) => r.k.qsize < r.q_cap + MaxOverrun
         /\ stream' = IF known THEN stream
                      ELSE [stream EXCEPT ![r.seed] = Append(@, rnd)]
         /\ LET size == IF r.max_q = 0 THEN rnd + 1
                        ELSE BlockSize(rnd, r.max_q)
            IN run' = [run EXCEPT ![i] =
                  IF dies
                  THEN [r EXCEPT !.pc = "crash", !.rng = pos]
                  ELSE [r EXCEPT !.rng = pos,
                                 !.k.q = Append(@, size),
                                 !.k.qsize = @ + 1,
                                 !.q_num_rows = @ - size]]
    /\ UNCHANGED nanInt

(* if (q_num_rows > 0), lines 104-107 *)
LastBlock(i) ==
    LET r == run[i]
        inBounds == r.k.qsize < r.q_cap
    IN
    /\ r.pc = "loop"
    /\ ~LoopCond(r.q_num_rows, r.max_q)
    /\ IF LastCond(r.q_num_rows)
       THEN \E dies \in BOOLEAN :
              /\ dies => ~inBounds
              /\ run' = [run EXCEPT ![i] =
                    IF dies THEN [r EXCEPT !.pc = "crash"]
                    ELSE [r EXCEPT !.pc = "report",
                                   !.k.q = Append(@, r.q_num_rows),
                                   !.k.qsize = @ + 1]]
       ELSE run' = [run EXCEPT ![i] = [r EXCEPT !.pc = "report"]]
    /\ UNCHANGED <<stream, nanInt>>

(* q_total, k->s, k->ssize, k->ep, k->ed and the report, lines 109-133 *)
Report(i) ==
    LET r == run[i] IN
    /\ r.pc = "report"
    /\ run' = [run EXCEPT ![i] =
          [r EXCEPT !.pc = "build",
                    !.q_total = SumQ(r.k.q, r.k.qsize),
                    !.k.s = "NULL", !.k.ssize = 0, !.k.ep = 0, !.k.ed = 0,
                    !.assigned = @ \cup {"q_total"},
                    !.out = Append(@, "report")]]
    /\ UNCHANGED <<stream, nanInt>>

(* d->m, d->n, genRandomProbData, setScsParams: lines 136-139 *)
Build(i) ==
    LET r == run[i] IN
    /\ r.pc = "build"
    /\ run' = [run EXCEPT ![i] =
          [r EXCEPT !.pc = "solve",
                    !.d = setScsParams([r.d EXCEPT !.m = r.m, !.n = r.n]),
                    !.calls = Append(@, "genRandomProbData")]]
    /\ UNCHANGED <<stream, nanInt>>

(* scs, freeData, freeSol, return 0: lines 141-152 *)
Solve(i) ==
    LET r == run[i] IN
    /\ r.pc = "solve"
    /\ run' = [run EXCEPT ![i] =
          [r EXCEPT !.pc = "exit", !.status = 0,
                    !.calls = Append(@, "scs"),
                    !.out = Append(@, "optimum"),
                    !.heap = {}]]
    /\ UNCHANGED <<stream, nanInt>>

Step(i) ==
    \/ ParseArgs(i)
    \/ SeedAndAlloc(i)
    \/ Derive(i)
    \/ CheckFractions(i)
    \/ AllocRows(i)
    \/ LoopIter(i)
    \/ LastBlock(i)
    \/ Report(i)
    \/ Build(i)
    \/ Solve(i)

Next == \E i \in RunIds : Exec(i) \/ Step(i)

Spec == Init /\ [][Next]_vars

(* A started process runs to its end.                                     *)
FairSpec == Spec /\ \A i \in RunIds : WF_vars(Step(i))

(* ----------------------------- properties ----------------------------- *)
Parsed(r) == "n" \in r.assigned

ValidInput(r) ==
    /\ Parsed(r)
    /\ r.n >= 1
    /\ r.p_f >= 0
    /\ r.p_l >= 0
    /\ r.p_f + r.p_l <= PDen

RowsAssigned(r) == "q_num_rows" \in r.assigned

PartitionDone(r) ==
    \/ r.pc \in {"report", "build", "solve"}
    \/ r.pc = "exit" /\ r.calls # <<>>

InitRemaining(r) == 3 * r.n - r.k.f - r.k.l

Max0(x) == IF x > 0 THEN x ELSE 0

(* C1: for n >= 1 and fractions p_f, p_l >= 0 with p_f + p_l <= 1, once   *)
(* the partitioner has finished, k->f = floor(3n p_f), k->l =             *)
(* floor(3n p_l) and k->f + k->l + sum(k->q) = 3n; the total printed at   *)
(* line 133 equals m.                                                     *)
C1_RowConservation ==
    \A i \in RunIds :
       LET r == run[i] IN
       (ValidInput(r) /\ PartitionDone(r)) =>
          /\ r.k.f = (3 * r.n * r.p_f) \div PDen
          /\ r.k.l = (3 * r.n * r.p_l) \div PDen
          /\ r.k.f + r.k.l + SumQ(r.k.q, r.k.qsize) = 3 * r.n
          /\ ("q_total" \in r.assigned => r.q_total + r.k.f + r.k.l = r.m)

C1_Witness ==
    \E i \in RunIds :
       LET r == run[i] IN
       /\ ValidInput(r) /\ PartitionDone(r)
       /\ r.k.f + r.k.l > 0
       /\ r.k.qsize >= 2
       /\ "q_total" \in r.assigned

(* C2: for valid input every element of k->q, the last one included, is   *)
(* at least 1 and at most max_q, at every moment of the run.              *)
C2_BlockBound ==
    \A i \in RunIds :
       LET r == run[i] IN
       ValidInput(r) =>
          /\ r.k.qsize = Len(r.k.q)
          /\ \A j \in 1..Len(r.k.q) : 1 <= r.k.q[j] /\ r.k.q[j] <= r.max_q

C2_Witness ==
    \E i \in RunIds :
       LET r == run[i] IN
       /\ ValidInput(r) /\ PartitionDone(r)
       /\ r.k.qsize >= 2
       /\ r.k.q[r.k.qsize] = r.max_q
       /\ r.k.q[1] = 1

(* C3: a run with p_f + p_l > 1.0 assigns no row count, allocates no      *)
(* block array, produces no block and calls neither genRandomProbData    *)
(* nor scs; when it has ended it has printed the error and its status is  *)
(* 1; and it does end.                                                    *)
C3_Rejected(r) == r.pc = "exit" /\ r.status = 1 /\ r.out = <<"seed", "error">>

C3_NothingBuilt(r) ==
    /\ r.pc \in {"seed", "derive", "check", "exit"}
    /\ ~RowsAssigned(r)
    /\ r.k = ZeroCone
    /\ "q" \notin r.heap
    /\ r.calls = <<>>
    /\ r.pc = "exit" => C3_Rejected(r)

C3_Rejection ==
    /\ [](\A i \in RunIds :
            (Parsed(run[i]) /\ run[i].p_f + run[i].p_l > PDen)
               => C3_NothingBuilt(run[i]))
    /\ \A i \in RunIds :
          (Parsed(run[i]) /\ run[i].p_f + run[i].p_l > PDen)
             ~> C3_Rejected(run[i])

C3_Witness ==
    \E i \in RunIds :
       /\ Parsed(run[i])
       /\ run[i].p_f + run[i].p_l > PDen
       /\ C3_Rejected(run[i])

(* C4: a run whose parsed n is not positive never computes max_q, never   *)
(* derives a row count and never calls the instance builder.              *)
C4_NonPositiveRejected ==
    \A i \in RunIds :
       LET r == run[i] IN
       (Parsed(r) /\ r.n <= 0) =>
          /\ "max_q" \notin r.assigned
          /\ ~RowsAssigned(r)
          /\ r.calls = <<>>

(* C5: whenever genRandomProbData has been called, the cone passed has    *)
(* k->f >= 0, k->l >= 0, k->f + k->l <= m and every block >= 1.           *)
C5_WellFormedAtBuilder ==
    \A i \in RunIds :
       LET r == run[i] IN
       r.calls # <<>> =>
          /\ r.k.f >= 0
          /\ r.k.l >= 0
          /\ r.k.f + r.k.l <= r.m
          /\ \A j \in 1..Len(r.k.q) : r.k.q[j] >= 1

(* C6: two runs given the same n, p_f, p_l and the same seed (argv[4],    *)
(* or the same clock value when no seed is given) that both finish the    *)
(* partition hold the same k->q and k->qsize.                             *)
C6_SameInput ==
    /\ run[1].argc \in {2, 4, 5}
    /\ run[1].argc = run[2].argc
    /\ run[1].argv = run[2].argv
    /\ run[1].argc = 5 \/ run[1].seed = run[2].seed

C6_Determinism ==
    (C6_SameInput /\ PartitionDone(run[1]) /\ PartitionDone(run[2]))
       => /\ run[1].k.q = run[2].k.q
          /\ run[1].k.qsize = run[2].k.qsize

C6_Witness ==
    /\ C6_SameInput
    /\ PartitionDone(run[1])
    /\ PartitionDone(run[2])
    /\ run[2].k.qsize >= 3
    /\ run[2].rng >= 2

(* C7 (amended): with initial remaining >= 0 and max_q >= 1 every loop    *)
(* iteration lowers q_num_rows by at least 1 and leaves it >= 1, the      *)
(* number of iterations is at most max(0, initial remaining - max_q),     *)
(* and the loop is left.                                                  *)
C7_Pre(r) == RowsAssigned(r) /\ r.max_q >= 1 /\ InitRemaining(r) >= 0

C7_IterBound ==
    \A i \in RunIds :
       C7_Pre(run[i]) =>
          run[i].rng <= Max0(InitRemaining(run[i]) - run[i].max_q)

C7_Decrease ==
    \A i \in RunIds :
       (C7_Pre(run[i]) /\ run'[i].rng = run[i].rng + 1) =>
          /\ run'[i].pc = "loop"
          /\ run'[i].q_num_rows <= run[i].q_num_rows - 1
          /\ run'[i].q_num_rows >= 1

C7_Termination ==
    /\ []C7_IterBound
    /\ [][C7_Decrease]_vars
    /\ \A i \in RunIds :
          (run[i].pc = "loop" /\ C7_Pre(run[i])) ~> (run[i].pc = "report")

C7_Witness ==
    \E i \in RunIds :
       /\ C7_Pre(run[i])
       /\ run[i].pc = "report"
       /\ run[i].rng >= 2
       /\ run[i].rng = InitRemaining(run[i]) - run[i].max_q

(* C7 as stated: the number of iterations is at most initial remaining    *)
(* minus max_q.                                                           *)
C7_OriginalBound ==
    \A i \in RunIds :
       C7_Pre(run[i]) =>
          run[i].rng <= InitRemaining(run[i]) - run[i].max_q

(* C8: before the test p_f + p_l > 1.0 has been evaluated, and after it   *)
(* has failed, none of m, col_nnz, nnz, max_q has been computed and       *)
(* nothing has been allocated.                                            *)
C8_CheckFirst ==
    \A i \in RunIds :
       LET r == run[i] IN
       (\/ r.pc \in {"parse", "seed", "derive", "check"}
        \/ r.pc = "exit" /\ r.status = 1)
          => /\ r.assigned \cap {"m", "col_nnz", "nnz", "max_q"} = {}
             /\ r.heap = {}

(* C9: when the initial remaining 3n - k->f - k->l is <= max_q no         *)
(* rand() call is made, and the finished partition is empty if the        *)
(* remaining is 0 and otherwise the single block <<remaining>>; n = 1     *)
(* with the default fractions gives <<3>>.                                *)
C9_NoDraw ==
    \A i \in RunIds :
       LET r == run[i] IN
       /\ (RowsAssigned(r) /\ InitRemaining(r) <= r.max_q) =>
             /\ r.rng = 0
             /\ r.pc # "crash"
             /\ PartitionDone(r) =>
                   r.k.q = IF InitRemaining(r) = 0 THEN <<>>
                           ELSE <<InitRemaining(r)>>
       /\ (r.argc = 2 /\ r.n = 1 /\ PartitionDone(r)) => r.k.q = <<3>>

(* C10: for valid input k->q has room for exactly the initial remaining   *)
(* rows, k->qsize never exceeds it, and whenever a write k->q[k->qsize]   *)
(* is about to happen k->qsize is below it.                               *)
C10_BufferBound ==
    \A i \in RunIds :
       LET r == run[i] IN
       (ValidInput(r) /\ RowsAssigned(r)) =>
          /\ r.q_cap = InitRemaining(r)
          /\ 0 <= r.k.qsize /\ r.k.qsize <= r.q_cap
          /\ r.pc # "crash"
          /\ (r.pc = "loop" /\ (r.q_num_rows > r.max_q \/ r.q_num_rows > 0))
                => r.k.qsize < r.q_cap

C10_Witness ==
    \E i \in RunIds :
       LET r == run[i] IN
       /\ ValidInput(r) /\ PartitionDone(r)
       /\ r.k.qsize >= 3
       /\ r.q_cap > r.k.qsize


=============================================================================
